---- MODULE Spec2Model ----
(***************************************************************************)
(* A model of the Yahrzeit list processor (src/main.py): the Week          *)
(* Partitioner, the Month Selector, the Cascading Grouping Transform and   *)
(* the Weekly Bucketer / Master Assembler.                                 *)
(*                                                                         *)
(* A datetime is its proleptic Gregorian ordinal (datetime.toordinal()),   *)
(* every datetime of the program being a midnight.  A text value is the    *)
(* sequence of its characters.                                             *)
(***************************************************************************)
EXTENDS Integers, Sequences, FiniteSets, TLC

VARIABLES
    pc,             \* the position of the run
    file_paths,     \* the input sources: name and content of each file
    now,            \* datetime.now(), as <<year, month, day>>
    month_info,     \* find_middle_month_from_files' list of estimates
    target_month,   \* the target month, None when unresolved
    target_year,    \* the target year, None when unresolved
    weeks,          \* identify_complete_weeks_for_month's list
    df,             \* the table handed to the operation under study
    result_df,      \* group_data_by_date_and_name's result
    regrouped_df,   \* the result of grouping result_df once more
    weekly_dfs,     \* create_weekly_dataframes' weekly tables
    sheet_names,    \* create_weekly_dataframes' labels, one per weekly table
    master_df,      \* create_weekly_dataframes' master table
    spreadsheet_title,  \* create_weekly_dataframes' title
    cleaned_df,     \* clean_data's result
    recleaned_df    \* the result of cleaning cleaned_df once more

monthVars == <<file_paths, now, month_info>>
targetVars == <<target_month, target_year>>
groupVars == <<result_df, regrouped_df>>
weeklyVars == <<weekly_dfs, sheet_names, master_df, spreadsheet_title>>
cleanVars == <<cleaned_df, recleaned_df>>

vars == <<pc, monthVars, targetVars, weeks, df, groupVars, weeklyVars, cleanVars>>

\* None, among the numbers of months and years
None == 0

\* A DataFrame: its column labels in order and its rows in order, a row
\* being its index label and its cells by column label.
DataFrame(columns, rows) == [columns |-> columns, rows |-> rows]

EmptyFrame == DataFrame(<<>>, <<>>)

Range(s) == {s[i] : i \in DOMAIN s}

\* What an operation run on its own leaves untouched.
NoFiles ==
    /\ file_paths = <<>>
    /\ now = <<>>
    /\ month_info = <<>>

NoGrouping ==
    /\ result_df = EmptyFrame
    /\ regrouped_df = EmptyFrame

NoWeeklyTables ==
    /\ weekly_dfs = <<>>
    /\ sheet_names = <<>>
    /\ master_df = EmptyFrame
    /\ spreadsheet_title = <<>>

NoCleaning ==
    /\ cleaned_df = EmptyFrame
    /\ recleaned_df = EmptyFrame

----------------------------------------------------------------------------
(* datetime(y, m, d), timedelta and weekday()                              *)

\* The years a file name can state: re.search(r'20\d{2}', filename).
MinYear == 2000
MaxYear == 2099

is_leap(y) == (y % 4 = 0) /\ ((y % 100 # 0) \/ (y % 400 = 0))

days_in_month(y, m) ==
    IF m = 2 THEN (IF is_leap(y) THEN 29 ELSE 28)
    ELSE IF m \in {4, 6, 9, 11} THEN 30 ELSE 31

days_before_year(y) ==
    (y - 1) * 365 + ((y - 1) \div 4) - ((y - 1) \div 100) + ((y - 1) \div 400)

RECURSIVE days_before_month(_, _)
days_before_month(y, m) ==
    IF m = 1 THEN 0 ELSE days_before_month(y, m - 1) + days_in_month(y, m - 1)

\* datetime(y, m, d) raises ValueError outside these ranges.
ValidDate(y, m, d) ==
    /\ y \in 1..9999
    /\ m \in 1..12
    /\ d \in 1..days_in_month(y, m)

\* datetime(y, m, d).toordinal()
datetime(y, m, d) == days_before_year(y) + days_before_month(y, m) + d

\* datetime.weekday(): Monday is 0, Saturday 5, Sunday 6.
weekday(date) == (date + 6) % 7

----------------------------------------------------------------------------
(* identify_complete_weeks_for_month                                       *)

first_day_of_month(m, y) == datetime(y, m, 1)

last_day_of_month(m, y) ==
    IF m = 12 THEN datetime(y + 1, 1, 1) - 1
    ELSE datetime(y, m + 1, 1) - 1

first_saturday_back7(m, y) ==
    LET first == first_day_of_month(m, y)
        days_to_prev_saturday == ((weekday(first) - 6) % 7) + 1
    IN  first - days_to_prev_saturday

first_saturday_sunday(m, y) ==
    LET first == first_day_of_month(m, y)
        days_to_prev_saturday == (weekday(first) - 6) % 7
    IN  first - days_to_prev_saturday

first_saturday(m, y) ==
    LET first == first_day_of_month(m, y)
        days_to_prev_saturday == (weekday(first) - 5) % 7
        sat == first - days_to_prev_saturday
    IN  IF sat > first THEN sat - 7 ELSE sat

last_friday_saturday(m, y) ==
    LET last == last_day_of_month(m, y)
        days_to_next_friday == (5 - weekday(last)) % 7
    IN  last + days_to_next_friday

last_friday(m, y) ==
    LET last == last_day_of_month(m, y)
        days_to_next_friday == (4 - weekday(last)) % 7
    IN  last + days_to_next_friday

\* The while loop: one (current_saturday, current_friday) pair per pass.
RECURSIVE generate_weeks(_, _)
generate_weeks(current_saturday, last) ==
    IF current_saturday <= last
    THEN <<<<current_saturday, current_saturday + 6>>>>
         \o generate_weeks(current_saturday + 7, last)
    ELSE <<>>

identify_complete_weeks_for_month(m, y) ==
    generate_weeks(first_saturday(m, y), last_friday(m, y))

\* datetime(target_year, target_month, 1) and datetime(target_year + 1, 1, 1)
\* both construct.
ValidTarget(m, y) ==
    /\ ValidDate(y, m, 1)
    /\ (m = 12 => ValidDate(y + 1, 1, 1))

----------------------------------------------------------------------------
(* The Week Partitioner run on its own, for every month of every year a    *)
(* file name can state, and for the months just outside 1..12.             *)

InitWeeks ==
    /\ pc = "partition"
    /\ target_month \in 0..13
    /\ target_year \in MinYear..MaxYear
    /\ weeks = <<>>
    /\ df = EmptyFrame
    /\ NoFiles /\ NoGrouping /\ NoWeeklyTables /\ NoCleaning

Partition ==
    /\ pc = "partition"
    /\ ValidTarget(target_month, target_year)
    /\ weeks' = identify_complete_weeks_for_month(target_month, target_year)
    /\ pc' = "partitioned"
    /\ UNCHANGED <<monthVars, targetVars, df, groupVars, weeklyVars, cleanVars>>

PartitionRaises ==
    /\ pc = "partition"
    /\ ~ValidTarget(target_month, target_year)
    /\ pc' = "raised"
    /\ UNCHANGED <<monthVars, targetVars, weeks, df, groupVars, weeklyVars, cleanVars>>

NextWeeks == Partition \/ PartitionRaises

SpecWeeks == InitWeeks /\ [][NextWeeks]_vars

----------------------------------------------------------------------------
(* Claims about the Week Partitioner                                       *)

InTargetMonth(date) ==
    /\ date >= first_day_of_month(target_month, target_year)
    /\ date <= last_day_of_month(target_month, target_year)

\* C1: for every valid target month the partitioner returns a non-empty
\* list of weeks; every start is a Saturday, every end is start + 6 days (a
\* Friday), and every week starts the day after the previous week ends.
C1_WeeksSaturdayToFridayContiguous ==
    pc = "partitioned" =>
        /\ Len(weeks) >= 1
        /\ \A i \in 1..Len(weeks) :
              /\ weekday(weeks[i][1]) = 5
              /\ weeks[i][2] = weeks[i][1] + 6
              /\ weekday(weeks[i][2]) = 4
        /\ \A i \in 2..Len(weeks) : weeks[i][1] = weeks[i - 1][2] + 1

C1_Witness ==
    /\ pc = "partitioned"
    /\ Len(weeks) = 6

\* C2: every returned week holds at least one day of the target month.
C2_EveryWeekOverlapsTargetMonth ==
    pc = "partitioned" =>
        \A i \in 1..Len(weeks) :
            \E date \in weeks[i][1]..weeks[i][2] : InTargetMonth(date)

\* The 1st is a Saturday and the last day is a Friday: no week is added on
\* either side.
C2_Witness ==
    /\ pc = "partitioned"
    /\ weeks[1][1] = first_day_of_month(target_month, target_year)
    /\ weeks[Len(weeks)][2] = last_day_of_month(target_month, target_year)

\* C3 as stated: February 2025 gives 5 weeks, from Saturday 2025-02-01 to
\* Friday 2025-03-07.
C3_Feb2025FiveWeeks ==
    (pc = "partitioned" /\ target_month = 2 /\ target_year = 2025) =>
        /\ Len(weeks) = 5
        /\ weeks[1][1] = datetime(2025, 2, 1)
        /\ weeks[Len(weeks)][2] = datetime(2025, 3, 7)

\* C3 amended: February 2025 gives 4 weeks, from Saturday 2025-02-01 to
\* Friday 2025-02-28.
C3_Feb2025FourWeeks ==
    (pc = "partitioned" /\ target_month = 2 /\ target_year = 2025) =>
        /\ Len(weeks) = 4
        /\ weeks[1][1] = datetime(2025, 2, 1)
        /\ weekday(weeks[1][1]) = 5
        /\ weeks[Len(weeks)][2] = datetime(2025, 2, 28)
        /\ weekday(weeks[Len(weeks)][2]) = 4

C3_Witness ==
    /\ pc = "partitioned"
    /\ target_month = 2
    /\ target_year = 2025
    /\ Len(weeks) = 4

----------------------------------------------------------------------------
(* group_data_by_date_and_name                                             *)

grouping_columns ==
    << "Day of the Week", "Date", "Hebrew Day", "Hebrew Month",
       "Deceased First Name", "Deceased Last Name", "Deceased Hebrew Name",
       "Mourner First Name", "Mourner Last Name", "Relationship to mourner",
       "Tribe" >>

\* [col for col in grouping_columns if col in result_df.columns]
existing_columns(frame) ==
    SelectSeq(grouping_columns, LAMBDA col : col \in Range(frame.columns))

\* '|'.join(texts)
RECURSIVE join(_)
join(texts) ==
    IF Len(texts) = 0 THEN <<>>
    ELSE IF Len(texts) = 1 THEN texts[1]
    ELSE texts[1] \o <<"|">> \o join(Tail(texts))

\* The key of a slice that stops one column short: existing_columns[:i].
combined_key_before(row, columns, i) ==
    IF i = 1 THEN row.cells[columns[1]]
    ELSE join([k \in 1..(i - 1) |-> row.cells[columns[k]]])

\* result_df[existing_columns[:i+1]].astype(str).agg('|'.join, axis=1) for
\* one row; for the first column, the column's own value.
combined_key(row, columns, i) ==
    IF i = 1 THEN row.cells[columns[1]]
    ELSE join([k \in 1..i |-> row.cells[columns[k]]])

\* (key != key.shift()) at row r: the first row differs from the shifted-in
\* missing value.
key_changes(frame, columns, i, r) ==
    \/ r = 1
    \/ combined_key(frame.rows[r], columns, i)
         # combined_key(frame.rows[r - 1], columns, i)

\* .cumsum() at row r: the value of column group_<i>.
group_id(frame, columns, i, r) ==
    Cardinality({q \in 1..r : key_changes(frame, columns, i, q)})

\* The index labels of group_indices[1:], over all groups of level i.
labels_to_blank(frame, columns, i) ==
    { frame.rows[r].index : r \in
        { r \in 1..Len(frame.rows) :
            \E q \in 1..(r - 1) :
                group_id(frame, columns, i, q) = group_id(frame, columns, i, r) } }

\* col.startswith('group_'), over the column labels of the model.
startswith_group(col) == col \in {"group_0", "group_1", "group_2", "group_notes"}

group_data_by_date_and_name(frame) ==
    LET columns == existing_columns(frame)
        level(col) == CHOOSE i \in 1..Len(columns) : columns[i] = col
        \* every group_<i> is computed before any cell is blanked
        blank == [i \in 1..Len(columns) |-> labels_to_blank(frame, columns, i)]
        cells(row) ==
            [col \in DOMAIN row.cells |->
                IF col \in Range(columns) /\ row.index \in blank[level(col)]
                THEN <<>>
                ELSE row.cells[col]]
    IN  DataFrame(
            SelectSeq(frame.columns, LAMBDA col : ~startswith_group(col)),
            [r \in 1..Len(frame.rows) |->
                [index |-> frame.rows[r].index,
                 cells |-> [col \in {c \in DOMAIN frame.rows[r].cells :
                                        ~startswith_group(c)}
                            |-> cells(frame.rows[r])[col]]]])

----------------------------------------------------------------------------
(* The Cascading Grouping Transform run on its own, and once more on its   *)
(* own result.  The tables are the records of one week in sorted order:    *)
(* the display dates never decrease, and the records of the model differ   *)
(* in no other sort key (they have no deceased-name columns).  Some fields *)
(* are empty and some hold the '|' of the joined key.                      *)

MaxGroupRows == 3

GroupColumns == <<"Date", "Hebrew Day", "Hebrew Month", "Notes">>

\* The display dates of the tables, in ascending order of the date.
GroupDates == << <<"0", "5", "-", "J", "u", "n">>, <<"0", "6", "-", "J", "u", "n">> >>

GroupCells ==
    { [c \in Range(GroupColumns) |->
          CASE c = "Date" -> GroupDates[d]
            [] c = "Hebrew Day" -> hd
            [] c = "Hebrew Month" -> hm
            [] OTHER -> <<"n">>] :
        d \in DOMAIN GroupDates,
        hd \in {<<>>, <<"a">>, <<"b">>, <<"a", "|">>},
        hm \in {<<"a">>, <<"b">>, <<"|", "a">>} }

DateRank(text) == CHOOSE d \in DOMAIN GroupDates : GroupDates[d] = text

InitGroup ==
    /\ pc = "group"
    /\ target_month = None
    /\ target_year = None
    /\ weeks = <<>>
    /\ NoFiles /\ NoWeeklyTables /\ NoCleaning
    /\ \E n \in 0..MaxGroupRows : \E cells \in [1..n -> GroupCells] :
          /\ \A r \in 2..n :
                DateRank(cells[r - 1]["Date"]) <= DateRank(cells[r]["Date"])
          /\ df = DataFrame(GroupColumns,
                     [r \in 1..n |-> [index |-> r - 1, cells |-> cells[r]]])
    /\ result_df = EmptyFrame
    /\ regrouped_df = EmptyFrame

Group ==
    /\ pc = "group"
    /\ result_df' = group_data_by_date_and_name(df)
    /\ pc' = "grouped"
    /\ UNCHANGED <<monthVars, targetVars, weeks, df, regrouped_df, weeklyVars, cleanVars>>

Regroup ==
    /\ pc = "grouped"
    /\ regrouped_df' = group_data_by_date_and_name(result_df)
    /\ pc' = "regrouped"
    /\ UNCHANGED <<monthVars, targetVars, weeks, df, result_df, weeklyVars, cleanVars>>

NextGroup == Group \/ Regroup

SpecGroup == InitGroup /\ [][NextGroup]_vars

----------------------------------------------------------------------------
(* Claims about the Cascading Grouping Transform                           *)

\* Rows r-1 and r of the table agree on each of the hierarchy columns 1..i,
\* compared column by column.
AgreeUpTo(frame, columns, i, r) ==
    \A k \in 1..i :
        frame.rows[r - 1].cells[columns[k]] = frame.rows[r].cells[columns[k]]

\* C4: for every row r after the first and every hierarchy column i, the
\* output cell is '' when rows r-1 and r of the input agree on all of the
\* columns 0..i, compared column by column, and is the input value otherwise;
\* for all field values, those holding '|' included.
C4_StrictHierarchicalSuppression ==
    pc = "grouped" =>
        LET columns == existing_columns(df) IN
        \A r \in 2..Len(df.rows) : \A i \in 1..Len(columns) :
            result_df.rows[r].cells[columns[i]] =
                IF AgreeUpTo(df, columns, i, r)
                THEN <<>>
                ELSE df.rows[r].cells[columns[i]]

\* C5 as stated: grouping the result once more changes nothing, for every
\* sorted table, tables with empty hierarchy fields included.
C5_GroupIdempotent ==
    pc = "regrouped" => regrouped_df = result_df

HasBar(text) == \E k \in DOMAIN text : text[k] = "|"

PlainFields(frame) ==
    \A r \in 1..Len(frame.rows) : \A col \in Range(existing_columns(frame)) :
        /\ frame.rows[r].cells[col] # <<>>
        /\ ~HasBar(frame.rows[r].cells[col])

\* C5 amended: grouping the result once more changes nothing, for every
\* sorted table whose hierarchy fields are all non-empty and free of '|'.
C5_GroupIdempotentOnPlainFields ==
    (pc = "regrouped" /\ PlainFields(df)) => regrouped_df = result_df

\* A table of plain fields in which the first pass blanked some cell and
\* kept another of the same column.
C5_Witness ==
    /\ pc = "regrouped"
    /\ PlainFields(df)
    /\ Len(df.rows) = 3
    /\ result_df.rows[2].cells["Hebrew Day"] = <<>>
    /\ result_df.rows[3].cells["Hebrew Day"] # <<>>
    /\ result_df.rows[3].cells["Hebrew Month"] = df.rows[2].cells["Hebrew Month"]

----------------------------------------------------------------------------
(* Text: str.strip(), str.lower(), substring search, digits                *)

UpperCase ==
    <<"A", "B", "C", "D", "E", "F", "G", "H", "I", "J", "K", "L", "M", "N", "O", "P", "Q", "R", "S", "T", "U", "V", "W", "X", "Y", "Z">>

LowerCase ==
    <<"a", "b", "c", "d", "e", "f", "g", "h", "i", "j", "k", "l", "m", "n", "o", "p", "q", "r", "s", "t", "u", "v", "w", "x", "y", "z">>

Digits == <<"0", "1", "2", "3", "4", "5", "6", "7", "8", "9">>

IsDigit(c) == c \in Range(Digits)

\* int(c) of one digit
DigitValue(c) == (CHOOSE k \in DOMAIN Digits : Digits[k] = c) - 1

\* int(text) of a text of digits
RECURSIVE int(_)
int(text) ==
    IF Len(text) = 0 THEN 0
    ELSE 10 * int(SubSeq(text, 1, Len(text) - 1)) + DigitValue(text[Len(text)])

AllDigits(text) == \A k \in DOMAIN text : IsDigit(text[k])

lower_char(c) ==
    IF c \in Range(UpperCase)
    THEN LowerCase[CHOOSE k \in DOMAIN UpperCase : UpperCase[k] = c]
    ELSE c

\* str.lower()
lower(text) == <<>> \o [k \in DOMAIN text |-> lower_char(text[k])]

IsSpace(c) == c \in {" ", "\n", "\r", "\t"}

\* str.strip()
RECURSIVE lstrip(_)
lstrip(text) ==
    IF Len(text) > 0 /\ IsSpace(text[1]) THEN lstrip(Tail(text)) ELSE text

RECURSIVE rstrip(_)
rstrip(text) ==
    IF Len(text) > 0 /\ IsSpace(text[Len(text)])
    THEN rstrip(SubSeq(text, 1, Len(text) - 1)) ELSE text

strip(text) == rstrip(lstrip(text))

\* The positions at which pattern occurs in text.
Occurrences(pattern, text) ==
    { k \in 1..(Len(text) - Len(pattern) + 1) :
        SubSeq(text, k, k + Len(pattern) - 1) = pattern }

\* pattern in text
Contains(pattern, text) == Occurrences(pattern, text) # {}

\* The positions of the character c in text.
Positions(c, text) == { k \in DOMAIN text : text[k] = c }

Min(S) == CHOOSE x \in S : \A z \in S : x <= z

Max(S) == CHOOSE x \in S : \A z \in S : x >= z

----------------------------------------------------------------------------
(* parse_date and format_date.  A parsed date is <<year, month, day>>; the *)
(* None of a date no format matches is <<>>.                               *)

NoDate == <<>>

FullMonthNames ==
    << <<"j", "a", "n", "u", "a", "r", "y">>,
       <<"f", "e", "b", "r", "u", "a", "r", "y">>,
       <<"m", "a", "r", "c", "h">>,
       <<"a", "p", "r", "i", "l">>,
       <<"m", "a", "y">>,
       <<"j", "u", "n", "e">>,
       <<"j", "u", "l", "y">>,
       <<"a", "u", "g", "u", "s", "t">>,
       <<"s", "e", "p", "t", "e", "m", "b", "e", "r">>,
       <<"o", "c", "t", "o", "b", "e", "r">>,
       <<"n", "o", "v", "e", "m", "b", "e", "r">>,
       <<"d", "e", "c", "e", "m", "b", "e", "r">> >>

AbbreviatedMonthNames ==
    << <<"j", "a", "n">>,
       <<"f", "e", "b">>,
       <<"m", "a", "r">>,
       <<"a", "p", "r">>,
       <<"m", "a", "y">>,
       <<"j", "u", "n">>,
       <<"j", "u", "l">>,
       <<"a", "u", "g">>,
       <<"s", "e", "p">>,
       <<"o", "c", "t">>,
       <<"n", "o", "v">>,
       <<"d", "e", "c">> >>

\* strftime's %b
MonthAbbreviation ==
    << <<"J", "a", "n">>, <<"F", "e", "b">>, <<"M", "a", "r">>,
       <<"A", "p", "r">>, <<"M", "a", "y">>, <<"J", "u", "n">>,
       <<"J", "u", "l">>, <<"A", "u", "g">>, <<"S", "e", "p">>,
       <<"O", "c", "t">>, <<"N", "o", "v">>, <<"D", "e", "c">> >>

\* The value of a directive's token, 0 when the token does not match it.
\* %d: 3[0-1] | [1-2]\d | 0[1-9] | [1-9] | ' '[1-9]
directive_d(token) ==
    LET digits == IF Len(token) = 2 /\ token[1] = " " THEN Tail(token) ELSE token
    IN  IF Len(digits) \in {1, 2} /\ AllDigits(digits) /\ int(digits) \in 1..31
        THEN int(digits) ELSE 0

\* %m: 1[0-2] | 0[1-9] | [1-9]
directive_m(token) ==
    IF Len(token) \in {1, 2} /\ AllDigits(token) /\ int(token) \in 1..12
    THEN int(token) ELSE 0

\* %b and %B: a month name of the list, in any case
directive_month_name(token, names) ==
    IF \E k \in DOMAIN names : names[k] = lower(token)
    THEN CHOOSE k \in DOMAIN names : names[k] = lower(token)
    ELSE 0

\* %y: \d\d, 69..99 in the 1900s and 00..68 in the 2000s; 0 is no match
directive_y(token) ==
    IF Len(token) = 2 /\ AllDigits(token)
    THEN (IF int(token) >= 69 THEN 1900 + int(token) ELSE 2000 + int(token))
    ELSE 0

\* %Y: \d\d\d\d; year 0 is refused by datetime
directive_Y(token) ==
    IF Len(token) = 4 /\ AllDigits(token) THEN int(token) ELSE 0

\* The date of the directives' values, when each token matched and the day
\* exists in the month.
checked_date(y, m, d) ==
    IF y # 0 /\ m # 0 /\ d # 0 /\ ValidDate(y, m, d) THEN <<y, m, d>> ELSE NoDate

\* The three tokens of a text "a-b-c", <<>> when it has not two '-'.
dash_tokens(text) ==
    LET at == Positions("-", text)
    IN  IF Cardinality(at) = 2
        THEN << SubSeq(text, 1, Min(at) - 1),
                SubSeq(text, Min(at) + 1, Max(at) - 1),
                SubSeq(text, Max(at) + 1, Len(text)) >>
        ELSE <<>>

\* The three tokens of a text "name<spaces>day,<spaces>year", <<>> when the
\* text has not that shape.
comma_tokens(text) ==
    LET commas == Positions(",", text)
        comma == Min(commas)
        left == SubSeq(text, 1, comma - 1)
        right == SubSeq(text, comma + 1, Len(text))
        spaces == { k \in DOMAIN left : IsSpace(left[k]) }
        name == SubSeq(left, 1, Min(spaces) - 1)
        day == lstrip(SubSeq(left, Min(spaces), Len(left)))
    IN  IF /\ Cardinality(commas) = 1
           /\ spaces # {}
           /\ Len(right) > 0 /\ IsSpace(right[1])
        THEN <<name, day, lstrip(right)>>
        ELSE <<>>

\* datetime.strptime(text, '%d-%b-%y')
strptime_d_b_y(text) ==
    LET t == dash_tokens(text)
    IN  IF t = <<>> THEN NoDate
        ELSE checked_date(directive_y(t[3]),
                          directive_month_name(t[2], AbbreviatedMonthNames),
                          directive_d(t[1]))

\* datetime.strptime(text, '%b %d, %Y') and, with the full names,
\* datetime.strptime(text, '%B %d, %Y')
strptime_name_d_Y(text, names) ==
    LET t == comma_tokens(text)
    IN  IF t = <<>> THEN NoDate
        ELSE checked_date(directive_Y(t[3]),
                          directive_month_name(t[1], names),
                          directive_d(t[2]))

\* datetime.strptime(text, '%Y-%m-%d')
strptime_Y_m_d(text) ==
    LET t == dash_tokens(text)
    IN  IF t = <<>> THEN NoDate
        ELSE checked_date(directive_Y(t[1]), directive_m(t[2]), directive_d(t[3]))

\* The first format of date_formats that parses the stripped text.
parse_date(date_str) ==
    LET text == strip(date_str)
    IN  IF strptime_d_b_y(text) # NoDate THEN strptime_d_b_y(text)
        ELSE IF strptime_name_d_Y(text, AbbreviatedMonthNames) # NoDate
             THEN strptime_name_d_Y(text, AbbreviatedMonthNames)
        ELSE IF strptime_Y_m_d(text) # NoDate THEN strptime_Y_m_d(text)
        ELSE strptime_name_d_Y(text, FullMonthNames)

\* '%02d' of a day number
two_digits(n) == <<Digits[(n \div 10) + 1], Digits[(n % 10) + 1]>>

\* A display format that keeps the year: '%Y-%m-%d'.
format_date_iso(date_obj) ==
    IF date_obj = NoDate THEN <<>>
    ELSE <<"2", "0">> \o two_digits(date_obj[1] % 100) \o <<"-">>
         \o two_digits(date_obj[2]) \o <<"-">> \o two_digits(date_obj[3])

\* date_obj.strftime('%d-%b'); "" for None
format_date(date_obj) ==
    IF date_obj = NoDate THEN <<>>
    ELSE two_digits(date_obj[3]) \o <<"-">> \o MonthAbbreviation[date_obj[2]]

----------------------------------------------------------------------------
(* extract_month_info_from_filename and find_middle_month_from_files.  A   *)
(* file is its base name and what pd.read_csv(file_path, nrows=1) finds:   *)
(* whether the read succeeds, whether the table has the column 'Yahrzeit   *)
(* Long Date', and the cells of that column, a cell being a text or NaN.   *)

File(name, readable, has_date_column, cells) ==
    [name |-> name, readable |-> readable,
     has_date_column |-> has_date_column, cells |-> cells]

TextCell(text) == [isna |-> FALSE, text |-> text]

NaN == [isna |-> TRUE, text |-> <<>>]

\* The dict month_names in its order: the twelve full names, then the
\* eleven abbreviations (there is none for may).
month_names ==
    [k \in 1..12 |-> <<FullMonthNames[k], k>>]
    \o [k \in 1..4 |-> <<AbbreviatedMonthNames[k], k>>]
    \o [k \in 1..7 |-> <<AbbreviatedMonthNames[k + 5], k + 5>>]

\* re.search(r'20\d{2}', filename): the leftmost match, as a number.
filename_year(filename) ==
    LET at == { k \in 1..(Len(filename) - 3) :
                   /\ filename[k] = "2"
                   /\ filename[k + 1] = "0"
                   /\ IsDigit(filename[k + 2])
                   /\ IsDigit(filename[k + 3]) }
    IN  IF at = {} THEN None ELSE int(SubSeq(filename, Min(at), Min(at) + 3))

\* The first month name of the dict, in the dict's order, that the file
\* name holds.
filename_month(filename) ==
    LET found == { k \in DOMAIN month_names : Contains(month_names[k][1], filename) }
    IN  IF found = {} THEN None ELSE month_names[Min(found)][2]

\* The body of the try block: "raises" when pd.read_csv raises or when the
\* cell is no text (parse_date then raises AttributeError on .strip), else
\* the parsed date of the first row, NoDate when the column is absent or
\* empty or the text is unparseable.
first_row_date(file) ==
    IF ~file.readable THEN "raises"
    ELSE IF ~(file.has_date_column /\ Len(file.cells) > 0) THEN NoDate
    ELSE IF file.cells[1].isna THEN "raises"
    ELSE parse_date(file.cells[1].text)

\* One of the two "if ... is None" blocks: part is 2 for the month, 1 for
\* the year.
from_first_row(file, current, part) ==
    LET date_obj == first_row_date(file)
    IN  IF date_obj = "raises" THEN current[part]
        ELSE IF date_obj # NoDate THEN date_obj[part]
        ELSE None

\* Returns <<month, year>>.
extract_month_info_from_filename(file, current) ==
    LET filename == lower(file.name)
        year == filename_year(filename)
        month == filename_month(filename)
    IN  << IF month = None THEN from_first_row(file, current, 2) ELSE month,
           IF year = None THEN from_first_row(file, current, 1) ELSE year >>

\* key=lambda x: (x[1], x[0])
sort_key(info) == <<info[2], info[1]>>

\* a < b of two key tuples raises TypeError: their first differing
\* components are None and a number.
Incomparable(a, b) ==
    IF a[1] # b[1] THEN (a[1] = None \/ b[1] = None)
    ELSE IF a[2] # b[2] THEN (a[2] = None \/ b[2] = None)
    ELSE FALSE

\* a < b of two comparable key tuples
key_less(a, b) == a[1] < b[1] \/ (a[1] = b[1] /\ a[2] < b[2])

\* list.sort raises TypeError: ordering the list needs a comparison of two
\* keys that cannot be compared.
sort_raises(infos) ==
    \E i, j \in DOMAIN infos : Incomparable(sort_key(infos[i]), sort_key(infos[j]))

\* The stable insertion of info into a sorted list: after every entry whose
\* key is not greater.
RECURSIVE insert_sorted(_, _)
insert_sorted(info, sorted) ==
    IF Len(sorted) = 0 THEN <<info>>
    ELSE IF key_less(sort_key(info), sort_key(sorted[Len(sorted)]))
    THEN insert_sorted(info, SubSeq(sorted, 1, Len(sorted) - 1))
         \o <<sorted[Len(sorted)]>>
    ELSE sorted \o <<info>>

\* month_info.sort(key=lambda x: (x[1], x[0]))
RECURSIVE sort_month_info(_)
sort_month_info(infos) ==
    IF Len(infos) = 0 THEN <<>>
    ELSE insert_sorted(infos[Len(infos)],
                       sort_month_info(SubSeq(infos, 1, Len(infos) - 1)))

\* The lower of the two middle places of a list of even length.
middle_index_lower(n) == ((n - 1) \div 2) + 1

\* len(month_info) // 2, as a place of a sequence counted from 1
middle_index(n) == (n \div 2) + 1

\* The for loop: one estimate per file, in the files' order.
estimates(files, current) ==
    [i \in DOMAIN files |-> extract_month_info_from_filename(files[i], current)]

\* The run of find_middle_month_from_files: whether the sort raises, the
\* list month_info as the run leaves it, and the entry returned.
find_middle_month_from_files(files, current) ==
    LET infos == <<>> \o estimates(files, current)
        sorted == sort_month_info(infos)
    IN  IF sort_raises(infos)
        THEN [raises |-> TRUE, month_info |-> infos, middle |-> <<None, None>>]
        ELSE [raises |-> FALSE, month_info |-> sorted,
              middle |-> sorted[middle_index(Len(sorted))]]

----------------------------------------------------------------------------
(* The Month Selector run on its own, over one to MaxFiles files.          *)

MaxFiles == 3

ScenarioNames ==
    << <<"A", "p", "r", "i", "l", "2", "0", "2", "5", ".", "c", "s", "v">>,
       <<"m", "a", "y", "_", "2", "0", "2", "5", ".", "c", "s", "v">>,
       <<"J", "u", "n", "e", "-", "2", "0", "2", "5", ".", "c", "s", "v">> >>

NoNameInfo == <<"e", "x", "p", "o", "r", "t", ".", "c", "s", "v">>
YearOnlyName == <<"l", "i", "s", "t", "_", "2", "0", "2", "4", ".", "c", "s", "v">>
MonthOnlyName == <<"d", "e", "c", ".", "c", "s", "v">>

\* What a file can hold.
Holds(name, text) == File(name, TRUE, TRUE, <<TextCell(text)>>)

FileChoices ==
    { Holds(ScenarioNames[k], <<"0", "1", "-", "J", "u", "n", "-", "2", "5">>) : k \in DOMAIN ScenarioNames }
    \cup { Holds(NoNameInfo, <<"0", "1", "-", "J", "u", "n", "-", "2", "5">>),
           Holds(NoNameInfo, <<"j", "u", "n", "k">>),
           File(NoNameInfo, TRUE, TRUE, <<NaN>>),
           File(NoNameInfo, TRUE, TRUE, <<>>),
           File(NoNameInfo, TRUE, FALSE, <<>>),
           File(NoNameInfo, FALSE, FALSE, <<>>),
           Holds(YearOnlyName, <<"M", "a", "r", " ", "1", "1", ",", " ", "2", "0", "2", "6">>),
           Holds(YearOnlyName, <<"j", "u", "n", "k">>),
           Holds(MonthOnlyName, <<"2", "0", "2", "5", "-", "0", "5", "-", "1", "1">>),
           Holds(MonthOnlyName, <<"j", "u", "n", "k">>) }

NowChoices == { <<2026, 11, 2>>, <<2024, 1, 15>> }

InitMonth ==
    /\ pc = "select"
    /\ \E n \in 1..MaxFiles : file_paths \in [1..n -> FileChoices]
    /\ now \in NowChoices
    /\ month_info = <<>>
    /\ target_month = None
    /\ target_year = None
    /\ weeks = <<>>
    /\ df = EmptyFrame
    /\ NoGrouping /\ NoWeeklyTables /\ NoCleaning

FindMiddle ==
    /\ pc = "select"
    /\ \E run \in {find_middle_month_from_files(file_paths, now)} :
          /\ ~run.raises
          /\ month_info' = run.month_info
          /\ target_month' = run.middle[1]
          /\ target_year' = run.middle[2]
    /\ pc' = "selected"
    /\ UNCHANGED <<file_paths, now, weeks, df, groupVars, weeklyVars, cleanVars>>

\* The sort raises TypeError; month_info holds the estimates unsorted.
FindMiddleRaises ==
    /\ pc = "select"
    /\ \E run \in {find_middle_month_from_files(file_paths, now)} :
          /\ run.raises
          /\ month_info' = run.month_info
    /\ pc' = "raised"
    /\ UNCHANGED <<file_paths, now, targetVars, weeks, df, groupVars, weeklyVars, cleanVars>>

NextMonth == FindMiddle \/ FindMiddleRaises

SpecMonth == InitMonth /\ [][NextMonth]_vars

----------------------------------------------------------------------------
(* Claims about the Month Selector                                         *)

Resolved(info) == info[1] # None /\ info[2] # None

Occurs(info, infos) == Cardinality({i \in DOMAIN infos : infos[i] = info})

FileNames == [i \in DOMAIN file_paths |-> file_paths[i].name]

\* C6: when every per-source estimate is resolved, month_info is the
\* estimates sorted by (year, month) ascending and the result is its entry
\* at the 0-based index floor(N/2), one of the estimates; for the files
\* April2025.csv, may_2025.csv, June-2025.csv the result is (5, 2025).
C6_MiddleOfSortedEstimates ==
    LET infos == estimates(file_paths, now)
        n == Len(file_paths)
    IN  (pc \in {"selected", "raised"} /\ \A i \in 1..n : Resolved(infos[i])) =>
            /\ pc = "selected"
            /\ Len(month_info) = n
            /\ \A i \in 1..n : Occurs(infos[i], month_info) = Occurs(infos[i], infos)
            /\ \A i, j \in 1..n :
                  i < j => ~key_less(sort_key(month_info[j]), sort_key(month_info[i]))
            /\ <<target_month, target_year>> = month_info[(n \div 2) + 1]
            /\ \E i \in 1..n : infos[i] = <<target_month, target_year>>
            /\ (FileNames = ScenarioNames => <<target_month, target_year>> = <<5, 2025>>)

\* Two files whose resolved estimates differ: the later month is returned.
C6_Witness ==
    /\ pc = "selected"
    /\ Len(file_paths) = 2
    /\ month_info[1] # month_info[2]
    /\ Resolved(month_info[1])
    /\ <<target_month, target_year>> = month_info[2]

\* The component the claim says a source resolves to: the file name's value
\* first, else the parsed first-row date's, else the current date's.  part
\* is 2 for the month and 1 for the year.
ClaimedPart(file, part) ==
    LET in_name == IF part = 2 THEN filename_month(lower(file.name))
                   ELSE filename_year(lower(file.name))
        has_text == /\ file.readable
                    /\ file.has_date_column
                    /\ Len(file.cells) > 0
                    /\ ~file.cells[1].isna
    IN  IF in_name # None THEN in_name
        ELSE IF has_text /\ parse_date(file.cells[1].text) # NoDate
             THEN parse_date(file.cells[1].text)[part]
        ELSE now[part]

\* C7: every source's estimate is a resolved (month, year): the file name's
\* value, else the first-row date's, else the current date's; never None.
C7_EstimateAlwaysResolved ==
    pc \in {"selected", "raised"} =>
        /\ \A i \in DOMAIN month_info : Resolved(month_info[i])
        /\ \A i \in DOMAIN file_paths :
              \E k \in DOMAIN month_info :
                  month_info[k] = <<ClaimedPart(file_paths[i], 2),
                                    ClaimedPart(file_paths[i], 1)>>


----------------------------------------------------------------------------
(* create_weekly_dataframes.  The column '_date_obj' holds parse_date's     *)
(* result, NaT being NoDate.                                               *)

\* The characters of the model in ascending order of their code points.
CodeOrder ==
    <<" ", ",", "-">> \o Digits \o UpperCase \o LowerCase \o <<"|">>

ord(c) == CHOOSE k \in DOMAIN CodeOrder : CodeOrder[k] = c

\* a < b, of two str
RECURSIVE str_less(_, _)
str_less(a, b) ==
    IF Len(b) = 0 THEN FALSE
    ELSE IF Len(a) = 0 THEN TRUE
    ELSE IF a[1] = b[1] THEN str_less(Tail(a), Tail(b))
    ELSE ord(a[1]) < ord(b[1])

\* str(n) of a number that is not negative
RECURSIVE str(_)
str(n) ==
    IF n < 10 THEN <<Digits[n + 1]>>
    ELSE str(n \div 10) \o <<Digits[(n % 10) + 1]>>

\* strftime's %B
MonthName ==
    << <<"J", "a", "n", "u", "a", "r", "y">>,
       <<"F", "e", "b", "r", "u", "a", "r", "y">>,
       <<"M", "a", "r", "c", "h">>,
       <<"A", "p", "r", "i", "l">>,
       <<"M", "a", "y">>,
       <<"J", "u", "n", "e">>,
       <<"J", "u", "l", "y">>,
       <<"A", "u", "g", "u", "s", "t">>,
       <<"S", "e", "p", "t", "e", "m", "b", "e", "r">>,
       <<"O", "c", "t", "o", "b", "e", "r">>,
       <<"N", "o", "v", "e", "m", "b", "e", "r">>,
       <<"D", "e", "c", "e", "m", "b", "e", "r">> >>

\* The ordinal of a parsed date.
toordinal(date_obj) == datetime(date_obj[1], date_obj[2], date_obj[3])

\* The <<year, month, day>> of an ordinal.
fromordinal(n) ==
    LET guess == (n * 400) \div 146097
        y == CHOOSE y \in guess..(guess + 2) :
                 days_before_year(y) < n /\ n <= days_before_year(y + 1)
        m == CHOOSE m \in 1..12 :
                 /\ datetime(y, m, 1) <= n
                 /\ n < datetime(y, m, 1) + days_in_month(y, m)
    IN  <<y, m, n - datetime(y, m, 1) + 1>>

\* date.strftime('%b %d') of an ordinal
strftime_b_d(date) ==
    LET ymd == fromordinal(date)
    IN  MonthAbbreviation[ymd[2]] \o <<" ">> \o two_digits(ymd[3])

\* df_copy['_date_obj'] = [parse_date(date_str) for date_str in df_copy['Date']]
with_date_obj(frame) ==
    DataFrame(
        Append(frame.columns, "_date_obj"),
        [r \in 1..Len(frame.rows) |->
            [index |-> frame.rows[r].index,
             cells |-> [col \in DOMAIN frame.rows[r].cells \cup {"_date_obj"} |->
                           IF col = "_date_obj"
                           THEN parse_date(frame.rows[r].cells["Date"])
                           ELSE frame.rows[r].cells[col]]]])

\* frame.drop(columns=['_date_obj'])
drop_date_obj(frame) ==
    DataFrame(
        SelectSeq(frame.columns, LAMBDA col : col # "_date_obj"),
        [r \in 1..Len(frame.rows) |->
            [index |-> frame.rows[r].index,
             cells |-> [col \in DOMAIN frame.rows[r].cells \ {"_date_obj"} |->
                           frame.rows[r].cells[col]]]])

\* Row a sorts strictly before row b under
\* by=['_date_obj', 'Deceased Last Name', 'Deceased First Name'],
\* na_position='last'.
sorts_before(a, b) ==
    LET da == a.cells["_date_obj"]
        db == b.cells["_date_obj"]
        la == a.cells["Deceased Last Name"]
        lb == b.cells["Deceased Last Name"]
        fa == a.cells["Deceased First Name"]
        fb == b.cells["Deceased First Name"]
        date_less == da # NoDate /\ (db = NoDate \/ toordinal(da) < toordinal(db))
    IN  \/ date_less
        \/ da = db /\ str_less(la, lb)
        \/ da = db /\ la = lb /\ str_less(fa, fb)

\* The row goes before every row that does not sort before it.
insert_row_first(row, sorted) ==
    LET k == Cardinality({j \in DOMAIN sorted : sorts_before(sorted[j], row)})
    IN  SubSeq(sorted, 1, k) \o <<row>> \o SubSeq(sorted, k + 1, Len(sorted))

\* The row goes after every row that does not sort after it.
insert_row(row, sorted) ==
    LET k == Cardinality({j \in DOMAIN sorted : ~sorts_before(row, sorted[j])})
    IN  SubSeq(sorted, 1, k) \o <<row>> \o SubSeq(sorted, k + 1, Len(sorted))

\* df_copy.sort_values(...): a stable sort, every row keeping its index label
RECURSIVE sort_rows(_)
sort_rows(rows) ==
    IF Len(rows) = 0 THEN <<>>
    ELSE insert_row(rows[Len(rows)], sort_rows(SubSeq(rows, 1, Len(rows) - 1)))

sort_values(frame) == DataFrame(frame.columns, sort_rows(frame.rows))

\* A weekly filter that has lost its upper limit.
weekly_data_unbounded(frame, week) ==
    SelectSeq(frame.rows, LAMBDA row :
        /\ row.cells["_date_obj"] # NoDate
        /\ toordinal(row.cells["_date_obj"]) >= week[1])

\* df_sorted[(df_sorted['_date_obj'] >= start_date) &
\*           (df_sorted['_date_obj'] <= end_date)]: the rows of the week
weekly_data(frame, week) ==
    SelectSeq(frame.rows, LAMBDA row :
        /\ row.cells["_date_obj"] # NoDate
        /\ toordinal(row.cells["_date_obj"]) >= week[1]
        /\ toordinal(row.cells["_date_obj"]) <= week[2])

\* A month test that lets every row of the week through.
month_data_all(rows, m, y) == rows

\* A month test that counts the months of the dates from 0.
month_data_from_zero(rows, m, y) ==
    SelectSeq(rows, LAMBDA row :
        /\ row.cells["_date_obj"][2] - 1 = m
        /\ row.cells["_date_obj"][1] = y)

\* weekly_data[(.dt.month == target_month) & (.dt.year == target_year)]
month_data(rows, m, y) ==
    SelectSeq(rows, LAMBDA row :
        /\ row.cells["_date_obj"][2] = m
        /\ row.cells["_date_obj"][1] = y)

\* frame['Date'] = frame['_date_obj'].apply(format_date)
with_formatted_dates(rows) ==
    [r \in 1..Len(rows) |->
        [index |-> rows[r].index,
         cells |-> [col \in DOMAIN rows[r].cells |->
                       IF col = "Date"
                       THEN format_date(rows[r].cells["_date_obj"])
                       ELSE rows[r].cells[col]]]]

\* The body of the loop for a week that is kept: the week's table.
weekly_table(frame, week) ==
    drop_date_obj(
        group_data_by_date_and_name(
            DataFrame(frame.columns,
                      <<>> \o with_formatted_dates(weekly_data(frame, week)))))

\* f"{start_date.strftime('%b %d')} - {end_date.strftime('%b %d')}"
sheet_name(week) ==
    strftime_b_d(week[1]) \o <<" ", "-", " ">> \o strftime_b_d(week[2])

\* The rows of the tables one after another.
RECURSIVE concat_rows(_)
concat_rows(frames) ==
    IF Len(frames) = 0 THEN <<>>
    ELSE frames[1].rows \o concat_rows(Tail(frames))

\* ignore_index=True: the index labels are 0, 1, 2, ...
reset_index(rows) ==
    [r \in 1..Len(rows) |-> [index |-> r - 1, cells |-> rows[r].cells]]

\* A concatenation that is grouped once more as one table.
concat_regrouped(frames) ==
    group_data_by_date_and_name(
        DataFrame(frames[1].columns, <<>> \o reset_index(concat_rows(frames))))

\* pd.concat(frames, ignore_index=True), of tables with the same columns
concat(frames) ==
    DataFrame(frames[1].columns, <<>> \o reset_index(concat_rows(frames)))

\* The columns create_weekly_dataframes reads by name.
required_columns == {"Date", "Deceased Last Name", "Deceased First Name"}

\* Series.dt raises AttributeError unless the column is of datetimes: a
\* column of None alone, or of no value at all, is not.
is_datetime_column(frame) ==
    \E r \in DOMAIN frame.rows : frame.rows[r].cells["_date_obj"] # NoDate

\* NaT.strftime raises ValueError.
has_NaT(frame) ==
    \E r \in DOMAIN frame.rows : frame.rows[r].cells["_date_obj"] = NoDate

\* f"{target_month} {month_name} {target_year}"
title(m, y) == str(m) \o <<" ">> \o MonthName[m] \o <<" ">> \o str(y)

Raised ==
    [raises |-> TRUE, weeks |-> <<>>, weekly_dfs |-> <<>>, sheet_names |-> <<>>,
     master_df |-> EmptyFrame, title |-> <<>>]

create_weekly_dataframes(frame, m, y) ==
    IF ~(required_columns \subseteq Range(frame.columns)) THEN Raised
    ELSE IF ~ValidTarget(m, y) THEN Raised
    ELSE
    LET df_sorted == sort_values(with_date_obj(frame))
        month_weeks == identify_complete_weeks_for_month(m, y)
        kept == SelectSeq(month_weeks, LAMBDA week :
                    Len(month_data(weekly_data(df_sorted, week), m, y)) > 0)
        tables == <<>> \o [k \in 1..Len(kept) |-> weekly_table(df_sorted, kept[k])]
        names == <<>> \o [k \in 1..Len(kept) |-> sheet_name(kept[k])]
    IN  IF Len(month_weeks) = 0
        THEN [raises |-> FALSE, weeks |-> month_weeks,
              weekly_dfs |-> <<drop_date_obj(df_sorted)>>,
              sheet_names |-> << <<"C", "o", "m", "p", "l", "e", "t", "e", " ",
                                   "L", "i", "s", "t">> >>,
              master_df |-> drop_date_obj(df_sorted),
              title |-> <<"Y", "a", "h", "r", "z", "e", "i", "t", " ", "L", "i",
                          "s", "t", " ", "-", " ", "N", "o", " ", "v", "a", "l",
                          "i", "d", " ", "w", "e", "e", "k", "s">>]
        ELSE IF ~is_datetime_column(df_sorted) THEN Raised
        ELSE IF Len(tables) > 0
        THEN [raises |-> FALSE, weeks |-> month_weeks, weekly_dfs |-> tables,
              sheet_names |-> names, master_df |-> concat(tables),
              title |-> title(m, y)]
        ELSE IF has_NaT(df_sorted) THEN Raised
        ELSE [raises |-> FALSE, weeks |-> month_weeks, weekly_dfs |-> <<>>,
              sheet_names |-> <<>>,
              master_df |-> drop_date_obj(
                  DataFrame(df_sorted.columns,
                            <<>> \o with_formatted_dates(df_sorted.rows))),
              title |-> title(m, y)]

----------------------------------------------------------------------------
(* create_weekly_dataframes run on the merged, cleaned table of main().     *)
(* The table is not empty (main returns when it is) and its index labels   *)
(* are 0, 1, 2, ... (pd.concat(dataframes, ignore_index=True)).            *)

MaxRows == 3

RecordColumns ==
    <<"Day of the Week", "Date", "Deceased Last Name", "Deceased First Name">>

\* The day of the week and the date label of a record: a Saturday of the
\* month before June 2025 that the first week of June holds, two Sundays
\* of June, a day of July that the last week of June holds, a day
\* before every week of June, and a label no format parses.
DatedChoices ==
    { << <<"S", "a", "t">>, <<"3", "1", "-", "M", "a", "y", "-", "2", "5">> >>,
      << <<"S", "u", "n">>, <<"0", "1", "-", "J", "u", "n", "-", "2", "5">> >>,
      << <<"S", "u", "n">>,
         <<"J", "u", "n", " ", "0", "8", ",", " ", "2", "0", "2", "5">> >>,
      << <<"W", "e", "d">>,
         <<"J", "u", "l", "y", " ", "2", ",", " ", "2", "0", "2", "5">> >>,
      << <<"F", "r", "i">>, <<"2", "0", "2", "5", "-", "0", "5", "-", "3", "0">> >>,
      << <<>>, <<"j", "u", "n", "k">> >> }

\* The deceased's last and first name.
NameChoices == { << <<"A">>, <<"B">> >>, << <<"B">>, <<"A">> >> }

RecordChoices ==
    { [col \in Range(RecordColumns) |->
          CASE col = "Day of the Week" -> dated[1]
            [] col = "Date" -> dated[2]
            [] col = "Deceased Last Name" -> name[1]
            [] OTHER -> name[2]] :
        dated \in DatedChoices, name \in NameChoices }

\* Two months that share a week, and the (None, None) of an unresolved
\* estimate.
TargetChoices == { <<6, 2025>>, <<7, 2025>>, <<None, None>> }

Init ==
    /\ pc = "create"
    /\ \E target \in TargetChoices :
          /\ target_month = target[1]
          /\ target_year = target[2]
    /\ \E n \in 1..MaxRows : \E cells \in [1..n -> RecordChoices] :
          df = DataFrame(RecordColumns,
                   [r \in 1..n |-> [index |-> r - 1, cells |-> cells[r]]])
    /\ weeks = <<>>
    /\ NoFiles /\ NoGrouping /\ NoWeeklyTables /\ NoCleaning

CreateWeekly ==
    /\ pc = "create"
    /\ \E run \in {create_weekly_dataframes(df, target_month, target_year)} :
          /\ ~run.raises
          /\ weeks' = run.weeks
          /\ weekly_dfs' = run.weekly_dfs
          /\ sheet_names' = run.sheet_names
          /\ master_df' = run.master_df
          /\ spreadsheet_title' = run.title
    /\ pc' = "created"
    /\ UNCHANGED <<monthVars, targetVars, df, groupVars, cleanVars>>

CreateWeeklyRaises ==
    /\ pc = "create"
    /\ \E run \in {create_weekly_dataframes(df, target_month, target_year)} :
          run.raises
    /\ pc' = "raised"
    /\ UNCHANGED <<monthVars, targetVars, weeks, df, groupVars, weeklyVars, cleanVars>>

Next == CreateWeekly \/ CreateWeeklyRaises

Spec == Init /\ [][Next]_vars


----------------------------------------------------------------------------
(* Claims about the Weekly Bucketer and the Master Assembler               *)

\* The effective date of a record of the input table.
EffectiveDate(row) == parse_date(row.cells["Date"])

\* The effective dates of the records of the input table, row by row.
EffectiveDates == <<>> \o [r \in DOMAIN df.rows |-> EffectiveDate(df.rows[r])]

\* The effective date is within [start, end] of the week.
InWeek(date, week) ==
    /\ date # NoDate
    /\ week[1] <= toordinal(date)
    /\ toordinal(date) <= week[2]

\* The effective date lies in the target month and year.
InTarget(date) ==
    /\ date # NoDate
    /\ date[2] = target_month
    /\ date[1] = target_year

\* Some record in the week's range lies in the target month and year.
Qualifies(dates, week) ==
    \E r \in DOMAIN dates : InWeek(dates[r], week) /\ InTarget(dates[r])

\* The index labels of a table's rows: the records it holds.
Records(frame) == {frame.rows[r].index : r \in DOMAIN frame.rows}

\* The records of the input in the week's range.
RecordsInWeek(dates, week) ==
    {df.rows[r].index : r \in {q \in DOMAIN dates : InWeek(dates[q], week)}}

\* C8: the weekly tables are those of the weeks in which some record in
\* range lies in the target month and year, one table per such week under
\* the week's label and in the order of the weeks; a week with records in
\* range but none of the target month has no table; the table of a week
\* holds every record whose effective date is in the week's range, those of
\* the adjacent month included.
C8_WeekRetainedIffTargetRecord ==
    pc = "created" =>
        \E dates \in {EffectiveDates} :
        \E retained \in {SelectSeq(weeks, LAMBDA week : Qualifies(dates, week))} :
            /\ Len(weekly_dfs) = Len(retained)
            /\ Len(sheet_names) = Len(retained)
            /\ \A k \in DOMAIN retained :
                  /\ sheet_names[k] = sheet_name(retained[k])
                  /\ Records(weekly_dfs[k]) = RecordsInWeek(dates, retained[k])
                  /\ Len(weekly_dfs[k].rows)
                        = Cardinality(RecordsInWeek(dates, retained[k]))
            /\ \A w \in DOMAIN weeks :
                  weeks[w] \notin Range(retained) =>
                      sheet_name(weeks[w]) \notin Range(sheet_names)

\* A week with a record in range is dropped, and the table of a retained
\* week holds a record of the adjacent month.
C8_Witness ==
    /\ pc = "created"
    /\ \E w \in DOMAIN weeks :
          /\ RecordsInWeek(EffectiveDates, weeks[w]) # {}
          /\ sheet_name(weeks[w]) \notin Range(sheet_names)
    /\ \E k \in DOMAIN weekly_dfs : \E r \in DOMAIN df.rows :
          /\ df.rows[r].index \in Records(weekly_dfs[k])
          /\ ~InTarget(EffectiveDate(df.rows[r]))

\* The weeks that have a table: those whose label is among the labels.
RetainedWeeks == {week \in Range(weeks) : sheet_name(week) \in Range(sheet_names)}

\* C9: no record is in two weekly tables or twice in one, and the records of
\* the weekly tables together are the records with a parseable effective
\* date in the range of some retained week.
C9_WeeklyTablesDisjointAndExact ==
    pc = "created" =>
        /\ \A j, k \in DOMAIN weekly_dfs :
              j # k => Records(weekly_dfs[j]) \cap Records(weekly_dfs[k]) = {}
        /\ \A k \in DOMAIN weekly_dfs :
              Cardinality(Records(weekly_dfs[k])) = Len(weekly_dfs[k].rows)
        /\ \E dates \in {EffectiveDates} :
              UNION {Records(weekly_dfs[k]) : k \in DOMAIN weekly_dfs}
                  = UNION {RecordsInWeek(dates, week) : week \in RetainedWeeks}

\* Two weekly tables that hold records, and a record with a parseable date
\* that is in no table.
C9_Witness ==
    /\ pc = "created"
    /\ Len(weekly_dfs) = 2
    /\ weekly_dfs[1].rows # <<>> /\ weekly_dfs[2].rows # <<>>
    /\ \E r \in DOMAIN df.rows :
          /\ EffectiveDate(df.rows[r]) # NoDate
          /\ \A k \in DOMAIN weekly_dfs :
                df.rows[r].index \notin Records(weekly_dfs[k])

\* The number of master rows before those of the k-th weekly table.
RECURSIVE Offset(_)
Offset(k) == IF k = 1 THEN 0 ELSE Offset(k - 1) + Len(weekly_dfs[k - 1].rows)

\* The record of the input with the index label.
InputRecord(label) ==
    df.rows[CHOOSE r \in DOMAIN df.rows : df.rows[r].index = label]

\* C10: when a week is retained, the master table is the rows of the weekly
\* tables one table after another in ascending order of the weeks, each row
\* with the cells of the weekly table's row; the first row of every week
\* shows its day of the week and its date, whatever the row before it shows.
C10_MasterIsConcatenationOfWeeklyTables ==
    (pc = "created" /\ Len(weekly_dfs) > 0) =>
        /\ Len(master_df.rows) = Offset(Len(weekly_dfs) + 1)
        /\ \A k \in DOMAIN weekly_dfs :
              /\ master_df.columns = weekly_dfs[k].columns
              /\ \A r \in DOMAIN weekly_dfs[k].rows :
                    master_df.rows[Offset(k) + r].cells = weekly_dfs[k].rows[r].cells
              /\ LET first == master_df.rows[Offset(k) + 1].cells
                     record == InputRecord(weekly_dfs[k].rows[1].index)
                 IN  /\ first["Day of the Week"] = record.cells["Day of the Week"]
                     /\ first["Date"] = format_date(EffectiveDate(record))
        /\ \A j, k \in DOMAIN sheet_names :
              j < k =>
                  \E a, b \in DOMAIN weeks :
                      /\ a < b
                      /\ sheet_names[j] = sheet_name(weeks[a])
                      /\ sheet_names[k] = sheet_name(weeks[b])

\* Two weekly tables, the second beginning with the day of the week on which
\* the first ends: the master table shows the day in both rows.
C10_Witness ==
    /\ pc = "created"
    /\ Len(weekly_dfs) = 2
    /\ LET last == master_df.rows[Offset(2)].cells
           first == master_df.rows[Offset(2) + 1].cells
       IN  /\ last["Day of the Week"] # <<>>
           /\ last["Day of the Week"] = first["Day of the Week"]

\* No record of the input has its effective date in the target month and
\* year, the target being a month of the calendar: no week is retained.
ZeroWeeksRetained ==
    /\ ValidTarget(target_month, target_year)
    /\ \A r \in DOMAIN df.rows : ~InTarget(EffectiveDate(df.rows[r]))

\* The row is the input record of its index label with the date rewritten
\* to the display format, every other cell as in the input.
DatedOnly(row) ==
    \E record \in {InputRecord(row.index)} :
        row.cells = [col \in DOMAIN record.cells |->
                        IF col = "Date" THEN format_date(EffectiveDate(record))
                        ELSE record.cells[col]]

\* C11: when no week is retained the run returns; the master table is every
\* record of the input with the date rewritten and nothing blanked; and the
\* output is one table under one label.
C11_ZeroWeeksSingleFallbackSet ==
    (pc \in {"created", "raised"} /\ ZeroWeeksRetained) =>
        /\ pc = "created"
        /\ Len(master_df.rows) = Len(df.rows)
        /\ \A r \in DOMAIN master_df.rows : DatedOnly(master_df.rows[r])
        /\ Len(weekly_dfs) = 1
        /\ Len(sheet_names) = 1

\* C12: the master table of a run that returns has a row for every record
\* of the input, those with an unparseable date label and those with a date
\* outside every retained week included: as many rows as the input.
C12_NoRecordDeleted ==
    pc = "created" => Len(master_df.rows) = Len(df.rows)

\* The rows of the weekly tables that show a date, each with the effective
\* date of its record: <<display text, effective date>>.
DisplayedDates ==
    UNION { { <<weekly_dfs[k].rows[r].cells["Date"],
                EffectiveDate(InputRecord(weekly_dfs[k].rows[r].index))>> :
              r \in {q \in DOMAIN weekly_dfs[k].rows :
                        weekly_dfs[k].rows[q].cells["Date"] # <<>>} } :
            k \in DOMAIN weekly_dfs }

\* C13 as stated: the Date field of a weekly table, parsed again by
\* parse_date, is the day and month of the record's effective date.
C13_DisplayDateRoundTrip ==
    pc = "created" =>
        \A shown \in DisplayedDates :
            \E again \in {parse_date(shown[1])} :
                /\ again # NoDate
                /\ again[2] = shown[2][2]
                /\ again[3] = shown[2][3]

\* C13, amended: the Date field of a weekly table is the two-digit day of
\* the month, '-', and the abbreviated month name of the record's effective
\* date, without the year; parse_date accepts no such text.
C13_DisplayDateKeepsDayAndMonth ==
    pc = "created" =>
        \A shown \in DisplayedDates :
            /\ Len(shown[1]) = 6
            /\ AllDigits(SubSeq(shown[1], 1, 2))
            /\ int(SubSeq(shown[1], 1, 2)) = shown[2][3]
            /\ shown[1][3] = "-"
            /\ SubSeq(shown[1], 4, 6) = MonthAbbreviation[shown[2][2]]
            /\ parse_date(shown[1]) = NoDate

\* A weekly table shows the date of a record whose label has the form
\* '%B %d, %Y' with a day of one digit.
C13_Witness ==
    /\ pc = "created"
    /\ \E shown \in DisplayedDates :
          shown = << <<"0", "2", "-", "J", "u", "l">>, <<2025, 7, 2>> >>

----------------------------------------------------------------------------
(* clean_data.  A cell of a table read from CSV files is a text            *)
(* (TextCell), a missing value (NaN) or a number (Float: a column that has *)
(* a missing value next to its numbers is of floats).  A column is of      *)
(* dtype object when some cell of it is a text; a column of numbers alone  *)
(* is not, and a column without rows is.                                   *)

\* The float n.0
Float(n) == [isna |-> FALSE, number |-> n]

IsNumber(cell) == "number" \in DOMAIN cell

\* df.fillna(''), of one cell
fillna(cell) == IF cell.isna THEN TextCell(<<>>) ELSE cell

\* .astype(str), of one cell without missing value
astype_str(cell) ==
    IF IsNumber(cell) THEN TextCell(str(cell.number) \o <<".", "0">>) ELSE cell

\* df[col].dtype == object
is_object(rows, col) ==
    \/ Len(rows) = 0
    \/ \E r \in DOMAIN rows : ~IsNumber(rows[r][col])

\* str.replace(old, ' ') of one character
replace_by_space(text, old) ==
    <<>> \o [k \in DOMAIN text |-> IF text[k] = old THEN " " ELSE text[k]]

\* lambda x: x.strip().replace('\n', ' ').replace('\r', ' ')
clean_string(text) ==
    replace_by_space(replace_by_space(strip(text), "\n"), "\r")

upper_char(c) ==
    IF c \in Range(LowerCase)
    THEN UpperCase[CHOOSE k \in DOMAIN LowerCase : LowerCase[k] = c]
    ELSE c

IsLetter(c) == c \in Range(LowerCase) \cup Range(UpperCase)

\* str.title(): the first letter of every run of letters in upper case, the
\* other letters in lower case.
str_title(text) ==
    <<>> \o [k \in DOMAIN text |->
                IF k = 1 \/ ~IsLetter(text[k - 1])
                THEN upper_char(text[k]) ELSE lower_char(text[k])]

\* str.capitalize(): the first character in upper case, the rest in lower
\* case.
capitalize(text) ==
    IF Len(text) = 0 THEN <<>>
    ELSE <<upper_char(text[1])>> \o lower(Tail(text))

\* lambda x: x.capitalize() if isinstance(x, str) and x.lower() != 'none'
\*           else x
capitalize_relationship(cell) ==
    IF ~IsNumber(cell) /\ lower(cell.text) # <<"n", "o", "n", "e">>
    THEN TextCell(capitalize(cell.text))
    ELSE cell

\* x[:3]
first_three(text) == SubSeq(text, 1, IF Len(text) < 3 THEN Len(text) ELSE 3)

\* df[col] = cells: the rows with the cells of one column replaced.
with_column(rows, col, cells) ==
    <<>> \o [r \in DOMAIN rows |-> [rows[r] EXCEPT ![col] = cells[r]]]

\* The loop over the columns of dtype object.
RECURSIVE clean_strings(_, _)
clean_strings(rows, columns) ==
    IF Len(columns) = 0 THEN rows
    ELSE LET col == columns[1]
             cleaned == IF is_object(rows, col)
                        THEN with_column(rows, col,
                                 [r \in DOMAIN rows |->
                                     TextCell(clean_string(
                                         astype_str(rows[r][col]).text))])
                        ELSE rows
         IN  clean_strings(cleaned, Tail(columns))

\* clean_data: the rows are the cells by column label; .str of a column that
\* is not of texts raises AttributeError.
clean_data(frame) ==
    LET has(col) == col \in Range(frame.columns)
        filled == <<>> \o [r \in DOMAIN frame.rows |->
                      [col \in DOMAIN frame.rows[r].cells |->
                          fillna(frame.rows[r].cells[col])]]
        hebrew == IF has("Hebrew Day")
                  THEN with_column(filled, "Hebrew Day",
                           [r \in DOMAIN filled |->
                               astype_str(filled[r]["Hebrew Day"])])
                  ELSE filled
        strings == clean_strings(hebrew, frame.columns)
        related == IF has("Relationship to mourner")
                   THEN with_column(strings, "Relationship to mourner",
                            [r \in DOMAIN strings |->
                                capitalize_relationship(
                                    strings[r]["Relationship to mourner"])])
                   ELSE strings
        days == IF has("Day of the Week")
                THEN with_column(related, "Day of the Week",
                         [r \in DOMAIN related |->
                             TextCell(first_three(
                                 related[r]["Day of the Week"].text))])
                ELSE related
    IN  IF has("Day of the Week") /\ ~is_object(related, "Day of the Week")
        THEN [raises |-> TRUE, frame |-> EmptyFrame]
        ELSE [raises |-> FALSE,
              frame |-> DataFrame(frame.columns,
                            <<>> \o [r \in DOMAIN frame.rows |->
                                [index |-> frame.rows[r].index,
                                 cells |-> days[r]]])]

----------------------------------------------------------------------------
(* clean_data run on a merged table, and once more on its own result.      *)

MaxCleanRows == 2

CleanColumns == <<"Day of the Week", "Hebrew Day", "Relationship to mourner">>

\* A day longer than three characters, a day with whitespace around it, a
\* day whose third character is a space, a missing day, a day as a number.
DayChoices ==
    { TextCell(<<"S", "u", "n", "d", "a", "y">>),
      TextCell(<<" ", "M", "o", "n", "\n">>),
      TextCell(<<"S", "u", " ", "n", "d", "a", "y">>),
      NaN,
      Float(1) }

HebrewDayChoices == { Float(5), NaN }

\* A relationship of two words, the placeholder 'none' in upper case with
\* whitespace after it, a missing one, one with a line break in it.
RelationshipChoices ==
    { TextCell(<<"g", "r", "e", "a", "t", " ", "u", "n", "c", "l", "e">>),
      TextCell(<<"N", "O", "N", "E", " ">>),
      NaN,
      TextCell(<<"G", "R", "A", "N", "D", "\n", "s", "o", "n">>) }

CleanCells ==
    { [col \in Range(CleanColumns) |->
          CASE col = "Day of the Week" -> day
            [] col = "Hebrew Day" -> hebrew
            [] OTHER -> relationship] :
        day \in DayChoices, hebrew \in HebrewDayChoices,
        relationship \in RelationshipChoices }

InitClean ==
    /\ pc = "clean"
    /\ target_month = None
    /\ target_year = None
    /\ weeks = <<>>
    /\ \E n \in 0..MaxCleanRows : \E cells \in [1..n -> CleanCells] :
          df = DataFrame(CleanColumns,
                   [r \in 1..n |-> [index |-> r - 1, cells |-> cells[r]]])
    /\ NoFiles /\ NoGrouping /\ NoWeeklyTables /\ NoCleaning

Clean ==
    /\ pc = "clean"
    /\ \E run \in {clean_data(df)} :
          /\ ~run.raises
          /\ cleaned_df' = run.frame
    /\ pc' = "cleaned"
    /\ UNCHANGED <<monthVars, targetVars, weeks, df, groupVars, weeklyVars,
                   recleaned_df>>

CleanRaises ==
    /\ pc = "clean"
    /\ \E run \in {clean_data(df)} : run.raises
    /\ pc' = "raised"
    /\ UNCHANGED <<monthVars, targetVars, weeks, df, groupVars, weeklyVars,
                   cleanVars>>

Reclean ==
    /\ pc = "cleaned"
    /\ \E run \in {clean_data(cleaned_df)} :
          /\ ~run.raises
          /\ recleaned_df' = run.frame
    /\ pc' = "recleaned"
    /\ UNCHANGED <<monthVars, targetVars, weeks, df, groupVars, weeklyVars,
                   cleaned_df>>

NextClean == Clean \/ CleanRaises \/ Reclean

SpecClean == InitClean /\ [][NextClean]_vars

----------------------------------------------------------------------------
(* Claims about clean_data                                                 *)

\* C14: cleaning a cleaned table changes no field.
C14_CleanIdempotent ==
    pc = "recleaned" => recleaned_df = cleaned_df

\* The trimmed value of the relationship field of row r of the input: the
\* empty text for a missing value, line breaks turned to spaces.
TrimmedRelationship(r) ==
    IF df.rows[r].cells["Relationship to mourner"].isna THEN <<>>
    ELSE clean_string(df.rows[r].cells["Relationship to mourner"].text)

\* The relationship field of row r of the cleaned table.
CleanedRelationship(r) == cleaned_df.rows[r].cells["Relationship to mourner"].text

IsNone(text) == lower(text) = <<"n", "o", "n", "e">>

\* out is text with its first character in upper case and every other
\* letter in lower case.
IsCapitalized(out, text) ==
    /\ Len(out) = Len(text)
    /\ \A k \in DOMAIN text :
          out[k] = IF k = 1 THEN upper_char(text[k]) ELSE lower_char(text[k])

\* out is text with the first letter of every word in upper case and every
\* other letter in lower case.
IsTitleCased(out, text) ==
    /\ Len(out) = Len(text)
    /\ \A k \in DOMAIN text :
          out[k] = IF k = 1 \/ text[k - 1] = " "
                   THEN upper_char(text[k]) ELSE lower_char(text[k])

\* C15 as stated: the cleaned relationship is the title-cased trimmed value,
\* every word capitalized, or the trimmed value itself when that is 'none'
\* in any case.
C15_RelationshipTitleCased ==
    pc = "cleaned" =>
        \A r \in DOMAIN df.rows :
            \E text \in {TrimmedRelationship(r)} :
                IF IsNone(text) THEN CleanedRelationship(r) = text
                ELSE IsTitleCased(CleanedRelationship(r), text)

\* C15, amended: the cleaned relationship is the capitalized trimmed value,
\* only its first character in upper case and all the rest in lower case,
\* or the trimmed value itself when that is 'none' in any case.
C15_RelationshipCapitalized ==
    pc = "cleaned" =>
        \A r \in DOMAIN df.rows :
            \E text \in {TrimmedRelationship(r)} :
                IF IsNone(text) THEN CleanedRelationship(r) = text
                ELSE IsCapitalized(CleanedRelationship(r), text)

\* A relationship of two words next to the placeholder in upper case.
C15_Witness ==
    /\ pc = "cleaned"
    /\ \E q, r \in DOMAIN df.rows :
          /\ CleanedRelationship(q)
                = <<"G", "r", "e", "a", "t", " ", "u", "n", "c", "l", "e">>
          /\ CleanedRelationship(r) = <<"N", "O", "N", "E">>

----------------------------------------------------------------------------
(* Claims about the order of the records                                   *)

\* Date a is an earlier day than date b, a date coming before no date.
DateBefore(a, b) ==
    /\ a # NoDate
    /\ \/ b = NoDate
       \/ a[1] < b[1]
       \/ a[1] = b[1] /\ a[2] < b[2]
       \/ a[1] = b[1] /\ a[2] = b[2] /\ a[3] < b[3]

\* The record at position i of the input comes strictly before the one at
\* position j by (effective date, deceased last name, deceased first name).
KeyBefore(dates, i, j) ==
    \/ DateBefore(dates[i], dates[j])
    \/ /\ dates[i] = dates[j]
       /\ \/ str_less(df.rows[i].cells["Deceased Last Name"],
                      df.rows[j].cells["Deceased Last Name"])
          \/ /\ df.rows[i].cells["Deceased Last Name"]
                   = df.rows[j].cells["Deceased Last Name"]
             /\ str_less(df.rows[i].cells["Deceased First Name"],
                         df.rows[j].cells["Deceased First Name"])

\* The rows are in non-decreasing order of the key of their records, rows
\* of equal key in the order of the input.  The index label of the record
\* at position i of the input is i - 1.
InKeyOrder(dates, rows) ==
    \A a, b \in DOMAIN rows :
        a < b =>
            \E i \in {rows[a].index + 1} : \E j \in {rows[b].index + 1} :
                /\ ~KeyBefore(dates, j, i)
                /\ KeyBefore(dates, i, j) \/ i < j

\* C16: the sorted table holds every record once, in non-decreasing order of
\* (effective date, last name, first name), records without a date after
\* all others and records of equal key in the order of the input; so do the
\* rows of every weekly table and of the master table of a run that retains
\* no week.
C16_RecordsInKeyOrder ==
    pc # "create" =>
    \E dates \in {EffectiveDates} :
        /\ \E sorted \in {sort_values(with_date_obj(df)).rows} :
              /\ Len(sorted) = Len(df.rows)
              /\ Records(DataFrame(<<>>, sorted)) = Records(df)
              /\ InKeyOrder(dates, sorted)
              /\ \A a, b \in DOMAIN sorted :
                    (dates[sorted[a].index + 1] = NoDate /\ a < b)
                        => dates[sorted[b].index + 1] = NoDate
        /\ pc = "created" =>
              /\ \A k \in DOMAIN weekly_dfs : InKeyOrder(dates, weekly_dfs[k].rows)
              /\ weekly_dfs = <<>> => InKeyOrder(dates, master_df.rows)

\* A weekly table holds two records of equal key in the order of the input
\* and two records in the reverse of their order in the input.
C16_Witness ==
    /\ pc = "created"
    /\ \E dates \in {EffectiveDates} :
          /\ \E k \in DOMAIN weekly_dfs : \E a, b \in DOMAIN weekly_dfs[k].rows :
                /\ a < b
                /\ weekly_dfs[k].rows[a].index > weekly_dfs[k].rows[b].index
          /\ \E k \in DOMAIN weekly_dfs : \E a, b \in DOMAIN weekly_dfs[k].rows :
                /\ a < b
                /\ ~KeyBefore(dates, weekly_dfs[k].rows[a].index + 1,
                              weekly_dfs[k].rows[b].index + 1)

----------------------------------------------------------------------------
(* main(): the Month Selector, the display of the target month, the load   *)
(* of the files, create_weekly_dataframes and the Delivery.  Of a file the *)
(* model records the rows that pd.read_csv(file_path, nrows=1) shows; the  *)
(* deceased of every row has the same name.                                *)

MIN_CSV_FILES_REQUIRED == 3

\* Never: a display that constructs no datetime.
never_raises(m, y) == FALSE

\* datetime(target_year, target_month, 1) raises TypeError for None and
\* ValueError for a number out of range.
datetime_raises(m, y) == ~ValidDate(y, m, 1)

\* load_data_from_csv: the rows of one file under the renamed columns
load_data_from_csv(file) ==
    [k \in DOMAIN file.cells |->
        [c \in {"Date", "Deceased Last Name", "Deceased First Name"} |->
            CASE c = "Date" -> file.cells[k]
              [] c = "Deceased Last Name" -> TextCell(<<"A">>)
              [] OTHER -> TextCell(<<"B">>)]]

\* The rows of the files one after another.
RECURSIVE loaded_rows(_)
loaded_rows(files) ==
    IF Len(files) = 0 THEN <<>>
    ELSE load_data_from_csv(files[1]) \o loaded_rows(Tail(files))

\* The table of texts of a cleaned table.
texts(frame) ==
    DataFrame(frame.columns,
        <<>> \o [r \in DOMAIN frame.rows |->
            [index |-> frame.rows[r].index,
             cells |-> [c \in DOMAIN frame.rows[r].cells |->
                           frame.rows[r].cells[c].text]]])

\* load_and_combine_data: pd.read_csv raises for a file it cannot read;
\* clean_data(pd.concat(dataframes, ignore_index=True)) otherwise.
load_and_combine_data(files) ==
    IF \E k \in DOMAIN files : ~files[k].readable
    THEN [raises |-> TRUE, frame |-> EmptyFrame]
    ELSE LET rows == <<>> \o loaded_rows(files)
             combined_df ==
                 DataFrame(
                     <<"Date", "Deceased Last Name", "Deceased First Name">>,
                     <<>> \o [r \in DOMAIN rows |->
                                 [index |-> r - 1, cells |-> rows[r]]])
         IN  [raises |-> FALSE, frame |-> texts(clean_data(combined_df).frame)]

\* df.empty
empty(frame) == Len(frame.rows) = 0 \/ Len(frame.columns) = 0

\* The files of the folder: those of the Month Selector and a file of May
\* 2025 without a row.
MainFileChoices ==
    FileChoices \cup {File(ScenarioNames[2], TRUE, TRUE, <<>>)}

InitMain ==
    /\ pc = "select"
    /\ file_paths \in [1..MIN_CSV_FILES_REQUIRED -> MainFileChoices]
    /\ now \in NowChoices
    /\ month_info = <<>>
    /\ target_month = None
    /\ target_year = None
    /\ weeks = <<>>
    /\ df = EmptyFrame
    /\ NoGrouping /\ NoWeeklyTables /\ NoCleaning

\* target_month_name = datetime(target_year, target_month, 1).strftime('%B')
NameTarget ==
    /\ pc = "selected"
    /\ ~datetime_raises(target_month, target_year)
    /\ pc' = "named"
    /\ UNCHANGED <<monthVars, targetVars, weeks, df, groupVars, weeklyVars,
                   cleanVars>>

NameTargetRaises ==
    /\ pc = "selected"
    /\ datetime_raises(target_month, target_year)
    /\ pc' = "raised"
    /\ UNCHANGED <<monthVars, targetVars, weeks, df, groupVars, weeklyVars,
                   cleanVars>>

\* df = load_and_combine_data(file_paths), the table not empty
Load ==
    /\ pc = "named"
    /\ \E run \in {load_and_combine_data(file_paths)} :
          /\ ~run.raises
          /\ ~empty(run.frame)
          /\ df' = run.frame
    /\ pc' = "create"
    /\ UNCHANGED <<monthVars, targetVars, weeks, groupVars, weeklyVars,
                   cleanVars>>

\* if df.empty: return
LoadEmpty ==
    /\ pc = "named"
    /\ \E run \in {load_and_combine_data(file_paths)} :
          /\ ~run.raises
          /\ empty(run.frame)
          /\ df' = run.frame
    /\ pc' = "returned"
    /\ UNCHANGED <<monthVars, targetVars, weeks, groupVars, weeklyVars,
                   cleanVars>>

LoadRaises ==
    /\ pc = "named"
    /\ \E run \in {load_and_combine_data(file_paths)} : run.raises
    /\ pc' = "raised"
    /\ UNCHANGED <<monthVars, targetVars, weeks, df, groupVars, weeklyVars,
                   cleanVars>>

\* service, drive_service = connect_to_google_sheets(), both set
Connect ==
    /\ pc = "created"
    /\ pc' = "connected"
    /\ UNCHANGED <<monthVars, targetVars, weeks, df, groupVars, weeklyVars,
                   cleanVars>>

\* connect_to_google_sheets() returns (None, None): main returns
ConnectFails ==
    /\ pc = "created"
    /\ pc' = "returned"
    /\ UNCHANGED <<monthVars, targetVars, weeks, df, groupVars, weeklyVars,
                   cleanVars>>

\* create_and_populate_sheets(...), which lets no exception out
Populate ==
    /\ pc = "connected"
    /\ pc' = "delivered"
    /\ UNCHANGED <<monthVars, targetVars, weeks, df, groupVars, weeklyVars,
                   cleanVars>>

NextMain ==
    \/ FindMiddle \/ FindMiddleRaises
    \/ NameTarget \/ NameTargetRaises
    \/ Load \/ LoadEmpty \/ LoadRaises
    \/ CreateWeekly \/ CreateWeeklyRaises
    \/ Connect \/ ConnectFails
    \/ Populate

SpecMain == InitMain /\ [][NextMain]_vars

----------------------------------------------------------------------------
(* Claims about main()                                                     *)

\* The target is no month of the calendar: a month outside 1..12, or a
\* month or a year that is None.
InvalidTarget == ~(target_month \in 1..12 /\ target_year \in 1..9999)

\* C17: once the Month Selector has returned a target that is no month of
\* the calendar, the run is at the display of the target or has raised
\* there: no table is loaded, no week computed, no weekly or master table
\* produced, and the Delivery is not reached.
C17_InvalidTargetIsFatal ==
    (pc # "select" /\ InvalidTarget) =>
        /\ pc \in {"selected", "raised"}
        /\ pc = "selected" => ENABLED NameTargetRaises /\ ~ENABLED NameTarget
        /\ df = EmptyFrame
        /\ weeks = <<>>
        /\ NoWeeklyTables

\* The Month Selector has returned (None, None) without raising and the run
\* has raised.
C17_Witness ==
    /\ pc = "raised"
    /\ Len(month_info) = MIN_CSV_FILES_REQUIRED
    /\ \A k \in DOMAIN month_info : month_info[k] = <<None, None>>
    /\ target_month = None

----------------------------------------------------------------------------
(* create_weekly_dataframes run on merged tables of different columns: the *)
(* columns the program names, and those with one more column of the files, *)
(* which load_data_from_csv passes on under its own label.                 *)

MaxColumnRows == 2

\* A column of the files whose label begins like the labels of the helper
\* columns.
OtherColumn == "group_notes"

ColumnChoices == { RecordColumns, Append(RecordColumns, OtherColumn) }

InitColumns ==
    /\ pc = "create"
    /\ \E target \in TargetChoices :
          /\ target_month = target[1]
          /\ target_year = target[2]
    /\ \E columns \in ColumnChoices :
       \E n \in 1..MaxColumnRows : \E cells \in [1..n -> RecordChoices] :
          df = DataFrame(columns,
                   [r \in 1..n |->
                       [index |-> r - 1,
                        cells |-> [col \in Range(columns) |->
                                      IF col = OtherColumn THEN <<"n">>
                                      ELSE cells[r][col]]]])
    /\ weeks = <<>>
    /\ NoFiles /\ NoGrouping /\ NoWeeklyTables /\ NoCleaning

SpecColumns == InitColumns /\ [][Next]_vars

\* The table has the columns of the input in their order, and each of its
\* rows a cell for each of them and for no other label.
HasInputColumns(frame) ==
    /\ frame.columns = df.columns
    /\ \A r \in DOMAIN frame.rows :
          DOMAIN frame.rows[r].cells = Range(df.columns)

\* C18: every table a run returns, weekly or master, has the columns of the
\* input table in the same order, so neither '_date_obj' nor a helper
\* column 'group_<i>'.
C18_ReturnedTablesHaveInputColumns ==
    pc = "created" =>
        /\ HasInputColumns(master_df)
        /\ \A k \in DOMAIN weekly_dfs : HasInputColumns(weekly_dfs[k])

----------------------------------------------------------------------------
(* Claims about the records of the target month                            *)

\* The places <<table, row>> of the weekly tables that hold the record.
Places(label) ==
    { place \in UNION { {<<k, r>> : r \in DOMAIN weekly_dfs[k].rows} :
                        k \in DOMAIN weekly_dfs } :
        weekly_dfs[place[1]].rows[place[2]].index = label }

\* C19: a run on a table that has a record of the target month and year
\* returns; the weeks cover every day of the target month; every record
\* whose effective date lies in the target month and year is at one place
\* of the weekly tables, and the master table of the weekly tables has one
\* row per place.
C19_TargetMonthRecordsKept ==
    (pc # "create" /\ ValidTarget(target_month, target_year)) =>
        \E dates \in {EffectiveDates} :
            /\ (\E i \in DOMAIN dates : InTarget(dates[i])) => pc = "created"
            /\ pc = "created" =>
                  /\ \A d \in 1..days_in_month(target_year, target_month) :
                        \E w \in DOMAIN weeks :
                            /\ weeks[w][1] <= datetime(target_year, target_month, d)
                            /\ datetime(target_year, target_month, d) <= weeks[w][2]
                  /\ \A i \in DOMAIN dates :
                        InTarget(dates[i]) =>
                            Cardinality(Places(df.rows[i].index)) = 1
                  /\ Len(weekly_dfs) > 0 =>
                        Len(master_df.rows) =
                            Cardinality(UNION {Places(df.rows[i].index) :
                                                   i \in DOMAIN dates})

\* Two records of the target month in two weekly tables, next to a record
\* of another month.
C19_Witness ==
    /\ pc = "created"
    /\ Len(weekly_dfs) = 2
    /\ \E i, j, k \in DOMAIN df.rows :
          /\ InTarget(EffectiveDate(df.rows[i]))
          /\ InTarget(EffectiveDate(df.rows[j]))
          /\ Places(df.rows[i].index) \subseteq {<<1, 1>>, <<1, 2>>}
          /\ Places(df.rows[j].index) = {<<2, 1>>}
          /\ EffectiveDate(df.rows[k]) # NoDate
          /\ ~InTarget(EffectiveDate(df.rows[k]))

----------------------------------------------------------------------------
(* group_data_by_date_and_name run on the tables of one week, of the       *)
(* columns of the Cascading Grouping Transform run on its own and of those *)
(* with one more column of the files.                                      *)

GroupColumnChoices == { GroupColumns, Append(GroupColumns, OtherColumn) }

InitGroupColumns ==
    /\ pc = "group"
    /\ target_month = None
    /\ target_year = None
    /\ weeks = <<>>
    /\ \E columns \in GroupColumnChoices :
       \E n \in 0..MaxColumnRows : \E cells \in [1..n -> GroupCells] :
          /\ \A r \in 2..n :
                DateRank(cells[r - 1]["Date"]) <= DateRank(cells[r]["Date"])
          /\ df = DataFrame(columns,
                     [r \in 1..n |->
                         [index |-> r - 1,
                          cells |-> [col \in Range(columns) |->
                                        IF col = OtherColumn THEN <<"n">>
                                        ELSE cells[r][col]]]])
    /\ NoFiles /\ NoGrouping /\ NoWeeklyTables /\ NoCleaning

SpecGroupColumns == InitGroupColumns /\ [][NextGroup]_vars

\* C20: the grouped table has the rows of the input in their order; each of
\* its cells is the cell of the input or the empty text; the columns that
\* are none of the eleven hierarchy columns are as in the input; and so is
\* the first row.
C20_GroupOnlyBlanksHierarchyCells ==
    pc \in {"grouped", "regrouped"} =>
        /\ Len(result_df.rows) = Len(df.rows)
        /\ \A r \in DOMAIN df.rows :
              /\ result_df.rows[r].index = df.rows[r].index
              /\ \A col \in Range(df.columns) :
                    /\ col \in DOMAIN result_df.rows[r].cells
                    /\ result_df.rows[r].cells[col]
                          \in {df.rows[r].cells[col], <<>>}
                    /\ (col \notin Range(grouping_columns) \/ r = 1) =>
                          result_df.rows[r].cells[col] = df.rows[r].cells[col]

====
